---- MODULE Spec2Model ----
(***************************************************************************)
(* Model of the CIFAR ensemble evaluation (baselines/cifar10/ensemble.py)  *)
(* and of the transformed random variable exercised by                     *)
(* edward2/tensorflow/transformed_random_variable_test.py.                 *)
(*                                                                         *)
(* Real numbers are kept exact.  A logit n denotes the real n * ln 2, so   *)
(* exp(logit) = 2^n is an integer power and every softmax probability is a *)
(* positive rational.  A real that is a logarithm is kept as a LogVal      *)
(* [n, d, k] denoting (1/k) * ln(n/d): negation swaps n and d, a sum of    *)
(* logarithms multiplies the fractions, a mean over j terms multiplies k   *)
(* by j, and log-sum-exp adds the fractions.                               *)
(***************************************************************************)
EXTENDS Integers, Sequences, FiniteSets, TLC

\* ------------------------------------------------------------------ bounds
\* Largest ensemble size explored.
MaxEnsemble == 2

\* Base samples explored are -MaxBase..MaxBase (units of ln 2).
MaxBase == 2

\* Largest number of sample() calls on one instance.
MaxCalls == 3

\* Number of training and of test examples explored.
NumTrain == 3

NumTest == 2

\* Logit values fed to the two metric functions (units of ln 2).
LogitVals == {-1, 1}

\* Class indices (a two-class problem keeps the softmax exact and small).
Classes == {0, 1}

\* Dataset sizes fed to the two metric functions.
ExampleCounts == {1, 2}

\* A result slot no call has filled yet.
None == [status |-> "none"]

\* ------------------------------------------------------- exact arithmetic
RECURSIVE GCD(_, _)
GCD(a, b) == IF b = 0 THEN a ELSE GCD(b, a % b)

RECURSIVE Pow(_, _)
Pow(b, e) == IF e = 0 THEN 1 ELSE b * Pow(b, e - 1)

\* The positive rational a/b in lowest terms.
Rat(a, b) == LET g == GCD(a, b) IN [n |-> a \div g, d |-> b \div g]

RatAdd(p, q) == Rat(p.n * q.d + q.n * p.d, p.d * q.d)

RatMul(p, q) == Rat(p.n * q.n, p.d * q.d)

RatInv(p) == [n |-> p.d, d |-> p.n]

RatLess(p, q) == p.n * q.d < q.n * p.d

RECURSIVE RatSum(_)
RatSum(s) == IF Len(s) = 1 THEN s[1] ELSE RatAdd(s[1], RatSum(Tail(s)))

RECURSIVE IntSum(_)
IntSum(s) == IF s = <<>> THEN 0 ELSE s[1] + IntSum(Tail(s))

RECURSIVE SeqMin(_)
SeqMin(s) == IF Len(s) = 1 THEN s[1]
             ELSE LET r == SeqMin(Tail(s)) IN IF s[1] < r THEN s[1] ELSE r

\* ln(r) for a positive rational r.
LLog(r) == [n |-> r.n, d |-> r.d, k |-> 1]

\* exp(v) for a LogVal that is a plain logarithm.
LExp(v) == [n |-> v.n, d |-> v.d]

\* -v
LNeg(v) == [n |-> v.d, d |-> v.n, k |-> v.k]

\* a + b for two LogVals over the same divisor k.
LAdd(a, b) == LET r == Rat(a.n * b.n, a.d * b.d) IN [n |-> r.n, d |-> r.d, k |-> a.k]

\* a >= b as reals: ln(ra)/ka >= ln(rb)/kb  <=>  ra^kb >= rb^ka.
LGe(a, b) == Pow(a.n, b.k) * Pow(b.d, a.k) >= Pow(b.n, a.k) * Pow(a.d, b.k)

\* a = b as reals.
LEq(a, b) == Pow(a.n, b.k) * Pow(b.d, a.k) = Pow(b.n, a.k) * Pow(a.d, b.k)

\* --------------------------------------------------- framework primitives
\* exp of every logit of one row, relative to the row's smallest logit.
ExpRow(row) == LET lo == SeqMin(row) IN [c \in 1..Len(row) |-> Pow(2, row[c] - lo)]

\* softmax(row)[label]
Softmax(row, label) == LET w == ExpRow(row) IN Rat(w[label + 1], IntSum(w))

\* tf.nn.sparse_softmax_cross_entropy_with_logits for one example:
\* -log softmax(row)[label].
SparseSoftmaxCrossEntropyWithLogits(label, row) == LNeg(LLog(Softmax(row, label)))

\* Mutant: only the first member enters the reduction.
ReduceLogSumExpFirstOnly(s) == LLog(LExp(s[1]))

\* tf.reduce_logsumexp over a sequence of plain logarithms.
ReduceLogSumExp(s) == LLog(RatSum([i \in 1..Len(s) |-> LExp(s[i])]))

RECURSIVE LSum(_)
LSum(s) == IF Len(s) = 1 THEN s[1] ELSE LAdd(s[1], LSum(Tail(s)))

\* Mutant: the mean divides by one more than the number of terms.
ReduceMeanOffByOne(s) == LET t == LSum(s) IN [n |-> t.n, d |-> t.d, k |-> t.k * (Len(s) + 1)]

\* tf.reduce_mean over a sequence of LogVals with one divisor.
ReduceMean(s) == LET t == LSum(s) IN [n |-> t.n, d |-> t.d, k |-> t.k * Len(s)]

\* tf.math.log of a positive whole number.
MathLog(x) == LLog(Rat(x, 1))

\* labels[tf.newaxis, ...]
NewAxis(t) == [shape |-> <<1>> \o t.shape, data |-> <<t.data>>]

\* tf.shape(logits)[:-1]
ShapeButLast(t) == SubSeq(t.shape, 1, Len(t.shape) - 1)

\* Whether tf.broadcast_to accepts the shapes: the input's rank is at most the
\* output's and, aligned from the right, every input dimension is 1 or equal.
BroadcastOK(inShape, outShape) ==
    /\ Len(inShape) <= Len(outShape)
    /\ \A i \in 1..Len(inShape) :
          LET a == inShape[Len(inShape) - i + 1]
              b == outShape[Len(outShape) - i + 1]
          IN a = 1 \/ a = b

\* tf.broadcast_to of a rank-1 or rank-2 tensor to a rank-2 shape.
BroadcastTo(t, outShape) ==
    [i \in 1..outShape[1] |-> [j \in 1..outShape[2] |->
        IF Len(t.shape) = 1
        THEN t.data[IF t.shape[1] = 1 THEN 1 ELSE j]
        ELSE t.data[IF t.shape[1] = 1 THEN 1 ELSE i][IF t.shape[2] = 1 THEN 1 ELSE j]]]

\* A Python list handed where a tensor is expected is stacked along a new
\* first axis; the empty list becomes a tensor of shape [0].
Stack(items) ==
    [shape |-> <<Len(items)>> \o (IF items = <<>> THEN <<>> ELSE items[1].shape),
     data |-> [i \in 1..Len(items) |-> items[i].data]]

\* tf.convert_to_tensor: a tensor as it is, a Python list stacked.
ConvertToTensor(x) == IF "items" \in DOMAIN x THEN Stack(x.items) ELSE x

\* tf.cast(labels, tf.int32): labels are integers already; a list is converted.
Cast(x) == ConvertToTensor(x)

InvalidArgumentError == [error |-> "InvalidArgumentError", op |-> "broadcast_to"]

IsError(r) == "error" \in DOMAIN r

\* The per-member, per-example cross entropy both metric functions start from,
\* or the error tf.broadcast_to raises.
MemberNLL(labels, logits) ==
    LET target == ShapeButLast(logits)
        lab == NewAxis(labels)
    IN IF ~BroadcastOK(lab.shape, target) THEN InvalidArgumentError
       ELSE LET b == BroadcastTo(lab, target)
            IN [shape |-> target,
                data |-> [m \in 1..target[1] |-> [i \in 1..target[2] |->
                   SparseSoftmaxCrossEntropyWithLogits(b[m][i], logits.data[m][i])]]]

\* Mutant: the log(ensemble_size) term is forgotten.
EnsembleCombineMissingLogM(col, ensemble_size) ==
    LNeg(ReduceLogSumExp([m \in 1..Len(col) |-> LNeg(col[m])]))

\* -tf.reduce_logsumexp(-nll, axis=0) + tf.math.log(ensemble_size), one example.
EnsembleCombine(col, ensemble_size) ==
    LAdd(LNeg(ReduceLogSumExp([m \in 1..Len(col) |-> LNeg(col[m])])), MathLog(ensemble_size))

\* Mutant: the size is read off the class axis.
EnsembleSizeFromLastAxis(logits) == logits.shape[Len(logits.shape)]

\* ensemble_size = float(logits.shape[0])
EnsembleSize(logits) == logits.shape[1]

\* ensemble_negative_log_likelihood(labels, logits)
ensemble_negative_log_likelihood(labels, logits) ==
    LET ensemble_size == EnsembleSize(ConvertToTensor(logits))
        nll == MemberNLL(Cast(labels), ConvertToTensor(logits))
    IN IF IsError(nll) THEN nll
       ELSE [shape |-> Tail(nll.shape),
             data |-> [i \in 1..nll.shape[2] |->
                EnsembleCombine([m \in 1..nll.shape[1] |-> nll.data[m][i]], ensemble_size)]]

\* gibbs_cross_entropy(labels, logits)
gibbs_cross_entropy(labels, logits) ==
    LET nll == MemberNLL(Cast(labels), ConvertToTensor(logits))
    IN IF IsError(nll) THEN nll
       ELSE [shape |-> Tail(nll.shape),
             data |-> [i \in 1..nll.shape[2] |->
                ReduceMean([m \in 1..nll.shape[1] |-> nll.data[m][i]])]]


\* ------------------------------------------------------ evaluation helpers
RECURSIVE Flatten(_)
Flatten(ss) == IF ss = <<>> THEN <<>> ELSE ss[1] \o Flatten(Tail(ss))

\* tf.concat(items, axis=0) of tensors of rank >= 1.
Concat(items) ==
    [shape |-> <<IntSum([i \in 1..Len(items) |-> items[i].shape[1]])>> \o Tail(items[1].shape),
     data |-> Flatten([i \in 1..Len(items) |-> items[i].data])]

\* Mutant: the member's logits go to the front of the collection.
ListPrepend(list, x) == [items |-> <<x>> \o list.items]

\* list.append(x)
ListAppend(list, x) == [items |-> Append(list.items, x)]

\* dataset.batch(per_core_batch_size): consecutive examples, the last batch
\* holding what is left.
Batches(dataset, batch_size) ==
    [b \in 1..((Len(dataset) + batch_size - 1) \div batch_size) |->
        SubSeq(dataset, (b - 1) * batch_size + 1,
               IF b * batch_size < Len(dataset) THEN b * batch_size ELSE Len(dataset))]

\* The network's logits for one image under weights w: a fixed function of
\* both, standing for the opaque wide_resnet.
ModelLogits(w, f) == [c \in 1..Cardinality(Classes) |-> ((w + f * c) % 3) - 1]

\* model(features, training=False) on one batch.
ModelCall(w, batch) ==
    [shape |-> <<Len(batch), Cardinality(Classes)>>,
     data |-> [i \in 1..Len(batch) |-> ModelLogits(w, batch[i].features)]]

\* The labels of one batch.
BatchLabels(batch) ==
    [shape |-> <<Len(batch)>>, data |-> [i \in 1..Len(batch) |-> batch[i].labels]]

\* tf.nn.softmax of one row.
SoftmaxRow(row) == [c \in 1..Len(row) |-> Softmax(row, c - 1)]

\* tf.reduce_mean(tf.nn.softmax(logits), axis=0) for example i.
MeanProbs(lg, i) ==
    [c \in 1..lg.shape[3] |->
        RatMul(Rat(1, lg.shape[1]),
               RatSum([m \in 1..lg.shape[1] |-> SoftmaxRow(lg.data[m][i])[c]]))]

\* argmax, the first index winning ties, as a class index.
ArgMax(ps) ==
    (CHOOSE c \in 1..Len(ps) :
        /\ \A c2 \in 1..Len(ps) : ~RatLess(ps[c], ps[c2])
        /\ \A c2 \in 1..(c - 1) : RatLess(ps[c2], ps[c])) - 1

\* tf.reduce_mean(sparse_categorical_accuracy(labels, probs)): the fraction
\* of examples whose most probable class is the label.
Accuracy(lab, lg) ==
    LET hits == {i \in 1..lg.shape[2] : ArgMax(MeanProbs(lg, i)) = lab.data[i]}
    IN [n |-> Cardinality(hits), d |-> lg.shape[2]]

\* Lines 197-212: the six scalars, each a mean over the dataset.
MetricsDict(lab_train, lg_train, lab_test, lg_test) ==
    [reported |-> {"train_negative_log_likelihood", "test_negative_log_likelihood",
                   "train_gibbs_cross_entropy", "test_gibbs_cross_entropy",
                   "train_accuracy", "test_accuracy"},
     train_negative_log_likelihood |->
         ReduceMean(ensemble_negative_log_likelihood(lab_train, lg_train).data),
     test_negative_log_likelihood |->
         ReduceMean(ensemble_negative_log_likelihood(lab_test, lg_test).data),
     train_gibbs_cross_entropy |->
         ReduceMean(gibbs_cross_entropy(lab_train, lg_train).data),
     test_gibbs_cross_entropy |->
         ReduceMean(gibbs_cross_entropy(lab_test, lg_test).data),
     train_accuracy |-> Accuracy(lab_train, ConvertToTensor(lg_train)),
     test_accuracy |-> Accuracy(lab_test, ConvertToTensor(lg_test))]

\* Mutant: an empty ensemble yields an empty metrics dictionary.
MetricsOutcomeEmptyAllowed(lab_train, lg_train, lab_test, lg_test) ==
    IF ConvertToTensor(lg_train).shape[1] = 0 THEN [reported |-> {}]
    ELSE MetricsDict(lab_train, lg_train, lab_test, lg_test)

\* Lines 189-213: the metrics dictionary, or the first error raised on the
\* way to it.
MetricsOutcome(lab_train, lg_train, lab_test, lg_test) ==
    LET nll_train == ensemble_negative_log_likelihood(lab_train, lg_train)
        nll_test == ensemble_negative_log_likelihood(lab_test, lg_test)
        gibbs_ce_train == gibbs_cross_entropy(lab_train, lg_train)
        gibbs_ce_test == gibbs_cross_entropy(lab_test, lg_test)
    IN IF IsError(nll_train) THEN nll_train
       ELSE IF IsError(nll_test) THEN nll_test
       ELSE IF IsError(gibbs_ce_train) THEN gibbs_ce_train
       ELSE IF IsError(gibbs_ce_test) THEN gibbs_ce_test
       ELSE MetricsDict(lab_train, lg_train, lab_test, lg_test)

\* Mutant: a failed restore is logged and the member skipped.
AfterRestoreErrorSkip(member) == [pc |-> "loop", m |-> member + 1]

\* checkpoint.restore raising: nothing in main catches it, so main ends.
AfterRestoreError(member) == [pc |-> "aborted", m |-> member]

\* ------------------------------------------- transformed random variable
\* A base sample k denotes the real k * ln 2, so the exponential transform
\* sends it to the rational 2^k.  A log-density is kept exact as the triple
\* [sq, lin, c] denoting sq * (ln 2)^2 / 2 + lin * ln 2 + c * ln(2 pi) / 2.
NonFinite == [finite |-> FALSE]

IsFinite(v) == "finite" \notin DOMAIN v

Positive(y) == y.n > 0 /\ y.d > 0

RECURSIVE ILog2(_)
ILog2(x) == IF x <= 1 THEN 0 ELSE 1 + ILog2(x \div 2)

\* Exp.call: tf.exp(inputs)
ExpCall(k) == IF k >= 0 THEN [n |-> Pow(2, k), d |-> 1] ELSE [n |-> 1, d |-> Pow(2, 0 - k)]

\* Exp.reverse: tf.math.log(inputs), in units of ln 2; not finite off the
\* positive reals.
ExpReverse(y) == IF ~Positive(y) THEN NonFinite ELSE [x |-> ILog2(y.n) - ILog2(y.d)]

\* Mutant: the sign of the Jacobian term is lost.
ExpLogDetJacobianPlus(y) ==
    IF ~Positive(y) THEN NonFinite
    ELSE [sq |-> 0, lin |-> ILog2(y.n) - ILog2(y.d), c |-> 0]

\* Exp.log_det_jacobian: -tf.math.log(inputs)
ExpLogDetJacobian(y) ==
    IF ~Positive(y) THEN NonFinite
    ELSE [sq |-> 0, lin |-> 0 - (ILog2(y.n) - ILog2(y.d)), c |-> 0]

\* ed.Normal(0., 1.).distribution.log_prob(x) = -x^2/2 - ln(2 pi)/2
NormalLogProb(x) == [sq |-> 0 - x * x, lin |-> 0, c |-> 0 - 1]

DensityAdd(a, b) ==
    IF ~IsFinite(a) \/ ~IsFinite(b) THEN NonFinite
    ELSE [sq |-> a.sq + b.sq, lin |-> a.lin + b.lin, c |-> a.c + b.c]

\* log_prob of the transformed distribution by change of variables:
\* log p_X(reverse(y)) + log_det_jacobian(y).
TransformedLogProb(y) ==
    LET x == ExpReverse(y)
    IN IF ~IsFinite(x) THEN NonFinite
       ELSE DensityAdd(NormalLogProb(x.x), ExpLogDetJacobian(y))

\* Mutant: sample() draws and transforms anew on every call.
SampleStepNoCache(rv, trv, k) == [rv |-> [x |-> k], trv |-> [y |-> ExpCall(k)], drew |-> 1]

\* sample() on one instance, k being what a fresh base draw would give: the
\* cached value if there is one; else the transform of the base sample,
\* drawn first if the base has none.
SampleStep(rv, trv, k) ==
    IF trv # None THEN [rv |-> rv, trv |-> trv, drew |-> 0]
    ELSE IF rv # None THEN [rv |-> rv, trv |-> [y |-> ExpCall(rv.x)], drew |-> 0]
    ELSE [rv |-> [x |-> k], trv |-> [y |-> ExpCall(k)], drew |-> 1]

\* ------------------------------------------------------------------- state
VARIABLES
    \* the metric functions' call: arguments and results
    labels, logits, logits_given, nll_out, gibbs_out,
    \* main: inputs
    num_cores, ensemble_filenames, dataset_train, dataset_test, per_core_batch_size,
    \* main: position, loop index, the weights the model holds, the list
    \* `logits` of the member being processed
    pc, m, model, member_logits,
    \* main: the four collections, the metrics dictionary, the error raised
    logits_train, logits_test, labels_train, labels_test, metrics, error,
    \* history: members whose restore was attempted, label batches captured
    restore_log, label_appends,
    \* transformed random variable: base sample, cached sample, lifecycle,
    \* base draws so far, values sample() returned, last log_prob returned
    rv_value, trv_value, lifecycle, base_draws, returned, last_log_prob,
    \* the test: y_sample and y_log_prob
    y_sample, y_log_prob

mvars == <<labels, logits, logits_given, nll_out, gibbs_out>>

evars == <<num_cores, ensemble_filenames, dataset_train, dataset_test, per_core_batch_size,
           pc, m, model, member_logits, logits_train, logits_test, labels_train,
           labels_test, metrics, error, restore_log, label_appends>>

tvars == <<rv_value, trv_value, lifecycle, base_draws, returned, last_log_prob,
           y_sample, y_log_prob>>

vars == <<mvars, evars, tvars>>

\* The parts of the state a specification does not exercise.
MetricsIdle ==
    /\ labels = None /\ logits = None /\ logits_given = None
    /\ nll_out = None /\ gibbs_out = None

EvalIdle ==
    /\ num_cores = 1
    /\ ensemble_filenames = <<>> /\ dataset_train = <<>> /\ dataset_test = <<>>
    /\ per_core_batch_size = 1
    /\ pc = "idle" /\ m = 0 /\ model = -1 /\ member_logits = <<>>
    /\ logits_train = [items |-> <<>>] /\ logits_test = [items |-> <<>>]
    /\ labels_train = [items |-> <<>>] /\ labels_test = [items |-> <<>>]
    /\ metrics = None /\ error = None
    /\ restore_log = <<>> /\ label_appends = 0

TRVIdle ==
    /\ rv_value = None /\ trv_value = None /\ lifecycle = "Idle"
    /\ base_draws = 0 /\ returned = <<>> /\ last_log_prob = None
    /\ y_sample = None /\ y_log_prob = None

\* ------------------------------------------------------------------- main
\* Checkpoints, each named by the weights it holds.
Weights == {0, 1}

BatchSizes == {1, 2, NumTrain + 1}

\* Values of FLAGS.num_cores.
CoreCounts == {1, 2}

ValueError == [error |-> "ValueError", op |-> "num_cores"]

\* main is entered: the flags are set, and the datasets and the checkpoints
\* (possibly none) that lines 109-129 will find are there; nothing is
\* collected yet.
Init ==
    /\ num_cores \in CoreCounts
    /\ ensemble_filenames \in UNION {[1..n -> Weights] : n \in 0..MaxEnsemble}
    /\ dataset_train \in {[j \in 1..NumTrain |-> [features |-> j, labels |-> y[j]]] :
                             y \in [1..NumTrain -> Classes]}
    /\ dataset_test \in {[j \in 1..NumTest |-> [features |-> NumTrain + j, labels |-> y[j]]] :
                            y \in [1..NumTest -> Classes]}
    /\ per_core_batch_size \in BatchSizes
    /\ pc = "start" /\ m = 0 /\ model = -1 /\ member_logits = <<>>
    /\ logits_train = [items |-> <<>>] /\ logits_test = [items |-> <<>>]
    /\ labels_train = [items |-> <<>>] /\ labels_test = [items |-> <<>>]
    /\ metrics = None /\ error = None
    /\ restore_log = <<>> /\ label_appends = 0
    /\ MetricsIdle /\ TRVIdle

ensemble_size == Len(ensemble_filenames)

TrainBatches == Batches(dataset_train, per_core_batch_size)

TestBatches == Batches(dataset_test, per_core_batch_size)

\* Lines 102-145: more than one accelerator is refused with a ValueError
\* before anything is loaded; otherwise the datasets are loaded and batched,
\* the checkpoints found and the four collections set empty.
Setup ==
    /\ pc = "start"
    /\ IF num_cores > 1
       THEN pc' = "aborted" /\ error' = ValueError
       ELSE pc' = "loop" /\ error' = error
    /\ UNCHANGED <<num_cores, ensemble_filenames, dataset_train, dataset_test,
                   per_core_batch_size, m, model, member_logits, logits_train,
                   logits_test, labels_train, labels_test, metrics, restore_log,
                   label_appends, mvars, tvars>>

\* Lines 146-149: the next member's checkpoint is restored.
Restore ==
    /\ pc = "loop" /\ m < ensemble_size
    /\ model' = ensemble_filenames[m + 1]
    /\ member_logits' = <<>>
    /\ restore_log' = Append(restore_log, m)
    /\ pc' = "train"
    /\ UNCHANGED <<num_cores, ensemble_filenames, dataset_train, dataset_test, per_core_batch_size,
                   m, logits_train, logits_test, labels_train, labels_test, metrics,
                   error, label_appends, mvars, tvars>>

\* Line 147: checkpoint.restore raises.
RestoreFails ==
    /\ pc = "loop" /\ m < ensemble_size
    /\ restore_log' = Append(restore_log, m)
    /\ error' = [error |-> "CheckpointRestoreError", op |-> "restore", member |-> m]
    /\ pc' = AfterRestoreError(m).pc
    /\ m' = AfterRestoreError(m).m
    /\ UNCHANGED <<num_cores, ensemble_filenames, dataset_train, dataset_test, per_core_batch_size,
                   model, member_logits, logits_train, logits_test, labels_train,
                   labels_test, metrics, label_appends, mvars, tvars>>

\* Lines 150-153: one training batch.
TrainBatch ==
    /\ pc = "train" /\ Len(member_logits) < Len(TrainBatches)
    /\ LET batch == TrainBatches[Len(member_logits) + 1]
       IN /\ member_logits' = Append(member_logits, ModelCall(model, batch))
          /\ IF m = 0
             THEN /\ labels_train' = ListAppend(labels_train, BatchLabels(batch))
                  /\ label_appends' = label_appends + 1
             ELSE UNCHANGED <<labels_train, label_appends>>
    /\ UNCHANGED <<num_cores, ensemble_filenames, dataset_train, dataset_test, per_core_batch_size,
                   pc, m, model, logits_train, logits_test, labels_test, metrics, error,
                   restore_log, mvars, tvars>>

\* Lines 155-161: the member's training logits are joined and appended.
TrainConcat ==
    /\ pc = "train" /\ Len(member_logits) = Len(TrainBatches)
    /\ logits_train' = ListAppend(logits_train, Concat(member_logits))
    /\ labels_train' = IF m = 0 THEN Concat(labels_train.items) ELSE labels_train
    /\ member_logits' = <<>>
    /\ pc' = "test"
    /\ UNCHANGED <<num_cores, ensemble_filenames, dataset_train, dataset_test, per_core_batch_size,
                   m, model, logits_test, labels_test, metrics, error, restore_log,
                   label_appends, mvars, tvars>>

\* Lines 162-165: one test batch.
TestBatch ==
    /\ pc = "test" /\ Len(member_logits) < Len(TestBatches)
    /\ LET batch == TestBatches[Len(member_logits) + 1]
       IN /\ member_logits' = Append(member_logits, ModelCall(model, batch))
          /\ IF m = 0
             THEN /\ labels_test' = ListAppend(labels_test, BatchLabels(batch))
                  /\ label_appends' = label_appends + 1
             ELSE UNCHANGED <<labels_test, label_appends>>
    /\ UNCHANGED <<num_cores, ensemble_filenames, dataset_train, dataset_test, per_core_batch_size,
                   pc, m, model, logits_train, logits_test, labels_train, metrics, error,
                   restore_log, mvars, tvars>>

\* Lines 172-175: steps counted with integer division.
CurrentStep ==
    ((Len(dataset_train) \div per_core_batch_size)
        + (Len(dataset_test) \div per_core_batch_size)) * (m + 1)

\* Lines 167-187: the member's test logits are joined and appended, then the
\* progress message is computed; with no whole batch in either dataset
\* steps_per_sec is 0.0 and the ETA division raises.
TestConcat ==
    /\ pc = "test" /\ Len(member_logits) = Len(TestBatches)
    /\ logits_test' = ListAppend(logits_test, Concat(member_logits))
    /\ labels_test' = IF m = 0 THEN Concat(labels_test.items) ELSE labels_test
    /\ member_logits' = <<>>
    /\ IF CurrentStep = 0
       THEN /\ pc' = "aborted"
            /\ error' = [error |-> "ZeroDivisionError", op |-> "eta_seconds", member |-> m]
            /\ m' = m
       ELSE /\ pc' = "loop"
            /\ m' = m + 1
            /\ error' = error
    /\ UNCHANGED <<num_cores, ensemble_filenames, dataset_train, dataset_test, per_core_batch_size,
                   model, logits_train, labels_train, metrics, restore_log,
                   label_appends, mvars, tvars>>

\* Lines 189-213: after the last member the metrics are computed and logged,
\* or the error raised on the way ends main.
ComputeMetrics ==
    /\ pc = "loop" /\ m = ensemble_size
    /\ LET out == MetricsOutcome(labels_train, logits_train, labels_test, logits_test)
       IN IF IsError(out)
          THEN /\ pc' = "aborted" /\ error' = out /\ metrics' = metrics
          ELSE /\ pc' = "done" /\ metrics' = out /\ error' = error
    /\ UNCHANGED <<num_cores, ensemble_filenames, dataset_train, dataset_test, per_core_batch_size,
                   m, model, member_logits, logits_train, logits_test, labels_train,
                   labels_test, restore_log, label_appends, mvars, tvars>>

Next ==
    \/ Setup
    \/ Restore
    \/ RestoreFails
    \/ TrainBatch
    \/ TrainConcat
    \/ TestBatch
    \/ TestConcat
    \/ ComputeMetrics

Spec == Init /\ [][Next]_vars

\* ----------------------------------------------------- the metric functions
Rows == [1..Cardinality(Classes) -> LogitVals]

LogitTensors ==
    UNION {UNION {
        {[shape |-> <<M, N, Cardinality(Classes)>>, data |-> x] :
            x \in [1..M -> [1..N -> Rows]]}
        : N \in ExampleCounts} : M \in 1..MaxEnsemble}

\* Label tensors of rank 0 and 1: one label, or one label per example.
LabelTensors ==
    {[shape |-> <<>>, data |-> y] : y \in Classes}
    \cup UNION {{[shape |-> <<N>>, data |-> y] : y \in [1..N -> Classes]}
                : N \in ExampleCounts}

MetricsInit ==
    /\ logits_given \in LogitTensors
    /\ logits = logits_given
    /\ labels \in LabelTensors
    /\ nll_out = None
    /\ gibbs_out = None
    /\ EvalIdle /\ TRVIdle

CallEnsembleNLL ==
    /\ nll_out = None
    /\ nll_out' = ensemble_negative_log_likelihood(labels, logits)
    /\ UNCHANGED <<labels, logits, logits_given, gibbs_out, evars, tvars>>

\* Called after the ensemble NLL, as main does (lines 193-196).
CallGibbs ==
    /\ nll_out # None /\ gibbs_out = None
    /\ gibbs_out' = gibbs_cross_entropy(labels, logits)
    /\ UNCHANGED <<labels, logits, logits_given, nll_out, evars, tvars>>

\* The members taken in the order perm.
PermuteMembers(t, perm) == [t EXCEPT !.data = [k \in 1..Len(t.data) |-> t.data[perm[k]]]]

\* The caller hands the members over in another order.
PermuteEnsemble ==
    /\ logits = logits_given /\ nll_out = None /\ gibbs_out = None
    /\ \E perm \in Permutations(1..logits.shape[1]) :
          /\ perm # [k \in 1..logits.shape[1] |-> k]
          /\ logits' = PermuteMembers(logits, perm)
    /\ UNCHANGED <<labels, logits_given, nll_out, gibbs_out, evars, tvars>>

MetricsNext == CallEnsembleNLL \/ CallGibbs \/ PermuteEnsemble

SpecMetrics == MetricsInit /\ [][MetricsNext]_vars

\* ------------------------------------------- claims on the metric functions
Computed(r) == r # None /\ ~IsError(r)

\* The logits' dataset dimensions: the shape without ensemble and class axes.
DatasetDims(t) == SubSeq(t.shape, 2, Len(t.shape) - 1)

ShapesMatch == labels.shape = DatasetDims(logits)

\* The label the code pairs with example i (after its broadcast).
LabelAt(i) == IF labels.shape = <<>> THEN labels.data
              ELSE IF labels.shape[1] = 1 THEN labels.data[1] ELSE labels.data[i]

\* (1/M) * sum over members of the probability given to example i's label.
MixtureProb(i) ==
    LET M == logits.shape[1]
    IN RatMul(Rat(1, M),
              RatSum([k \in 1..M |-> Softmax(logits.data[k][i], LabelAt(i))]))

\* C1: for labels of shape S and logits of shape [M, S, C], the ensemble NLL
\* of every example is the negative log of the members' mean probability of
\* the true label, and the output has shape S.
C1_MixtureNLL ==
    (ShapesMatch /\ nll_out # None) =>
        /\ ~IsError(nll_out)
        /\ nll_out.shape = labels.shape
        /\ \A i \in 1..labels.shape[1] :
              nll_out.data[i] = LNeg(LLog(MixtureProb(i)))

C1_Witness ==
    /\ ShapesMatch /\ Computed(nll_out)
    /\ logits.shape[1] = 2 /\ labels.shape = <<2>>
    /\ MixtureProb(1) = Rat(1, 2) /\ MixtureProb(2) = Rat(4, 5)

\* C2: the Gibbs cross entropy is at least the ensemble NLL, example by
\* example, for every ensemble.
C2_GibbsAtLeastNLL ==
    (Computed(nll_out) /\ Computed(gibbs_out)) =>
        \A i \in 1..nll_out.shape[1] : LGe(gibbs_out.data[i], nll_out.data[i])

\* Members disagree, so the inequality is strict.
C2_Witness ==
    /\ Computed(nll_out) /\ Computed(gibbs_out)
    /\ logits.shape[1] = 2
    /\ ~LGe(nll_out.data[1], gibbs_out.data[1])

\* C3: with one member the ensemble NLL is the member's softmax cross
\* entropy, and the Gibbs cross entropy equals it.
C3_SingleMember ==
    (logits.shape[1] = 1 /\ Computed(nll_out)) =>
        \A i \in 1..nll_out.shape[1] :
            /\ nll_out.data[i] =
                  SparseSoftmaxCrossEntropyWithLogits(LabelAt(i), logits.data[1][i])
            /\ Computed(gibbs_out) => LEq(gibbs_out.data[i], nll_out.data[i])

C3_Witness ==
    /\ logits.shape[1] = 1 /\ Computed(nll_out) /\ Computed(gibbs_out)
    /\ nll_out.data[1] = [n |-> 5, d |-> 1, k |-> 1]

\* C4: both functions return on permuted members what they return on the
\* members as given.
C4_PermutationInvariant ==
    /\ nll_out # None => nll_out = ensemble_negative_log_likelihood(labels, logits_given)
    /\ gibbs_out # None => gibbs_out = gibbs_cross_entropy(labels, logits_given)

C4_Witness ==
    /\ logits # logits_given
    /\ Computed(nll_out) /\ Computed(gibbs_out)

\* C7: a label shape that differs from the logits' dataset dimensions is
\* reported as an error by both functions, also when it could be broadcast.
C7_MismatchRejected ==
    ~ShapesMatch =>
        /\ nll_out # None => IsError(nll_out)
        /\ gibbs_out # None => IsError(gibbs_out)

\* ------------------------------------------------------- claims on main
\* What checkpoint w gives over a whole dataset, in dataset order.
ExpectedLogits(w, dataset) ==
    [shape |-> <<Len(dataset), Cardinality(Classes)>>,
     data |-> [j \in 1..Len(dataset) |-> ModelLogits(w, dataset[j].features)]]

DatasetLabels(dataset) ==
    [shape |-> <<Len(dataset)>>, data |-> [j \in 1..Len(dataset) |-> dataset[j].labels]]

\* C5: the logit collections grow by one entry per member, entry i being
\* checkpoint i's output over the dataset in order and never changing; the
\* labels are captured during member 0 only, and at the end hold one label per
\* example, as many as every member's logits hold examples.
C5_AppendOnlyInOrder ==
    ensemble_size >= 1 =>
        /\ pc \in {"start", "loop", "train", "done"} =>
              Len(logits_train.items) = m /\ Len(logits_test.items) = m
        /\ pc = "test" =>
              Len(logits_train.items) = m + 1 /\ Len(logits_test.items) = m
        /\ \A i \in 1..Len(logits_train.items) :
              logits_train.items[i] = ExpectedLogits(ensemble_filenames[i], dataset_train)
        /\ \A i \in 1..Len(logits_test.items) :
              logits_test.items[i] = ExpectedLogits(ensemble_filenames[i], dataset_test)
        /\ label_appends <= Len(TrainBatches) + Len(TestBatches)
        /\ m >= 1 => label_appends = Len(TrainBatches) + Len(TestBatches)
        /\ pc = "done" =>
              /\ labels_train = DatasetLabels(dataset_train)
              /\ labels_test = DatasetLabels(dataset_test)
              /\ \A i \in 1..ensemble_size :
                    /\ logits_train.items[i].shape[1] = labels_train.shape[1]
                    /\ logits_test.items[i].shape[1] = labels_test.shape[1]

\* Two different checkpoints, a partial last batch, the run complete.
C5_Witness ==
    /\ pc = "done" /\ num_cores = 1 /\ ensemble_size = 2 /\ per_core_batch_size = 2
    /\ ensemble_filenames[1] # ensemble_filenames[2]
    /\ Len(logits_train.items) = 2

RestoreFailed == IsError(error) /\ error.op = "restore"

\* C6: once a restore fails main is over: no metrics, no later member, and
\* every member up to the failed one was restored exactly once.
C6_RestoreFailureAborts ==
    RestoreFailed =>
        /\ pc = "aborted"
        /\ metrics = None
        /\ m = error.member
        /\ restore_log = [i \in 1..(error.member + 1) |-> i - 1]
        /\ Len(logits_train.items) = error.member
        /\ Len(logits_test.items) = error.member

\* The second member's restore fails after the first member was collected.
C6_Witness ==
    /\ RestoreFailed /\ error.member = 1
    /\ Len(logits_train.items) = 1 /\ pc = "aborted"

Finished == pc \in {"done", "aborted"}

\* C8 as stated: an empty ensemble is turned away by a check of its size.
C8_ExplicitSizeCheck ==
    (ensemble_size = 0 /\ Finished) =>
        /\ IsError(error)
        /\ error.op = "ensemble_size_check"

\* C8 amended: an empty ensemble yields no metrics; main ends with the
\* error tf.broadcast_to raises inside the first metric call, unless the
\* accelerator guard has ended it before.
C8_EmptyEnsembleRejected ==
    (ensemble_size = 0 /\ Finished) =>
        /\ pc = "aborted"
        /\ metrics = None
        /\ error = IF num_cores > 1 THEN ValueError ELSE InvalidArgumentError
        /\ restore_log = <<>>
        /\ labels_train = [items |-> <<>>]

C8_Witness == ensemble_size = 0 /\ pc = "aborted" /\ error = InvalidArgumentError

\* ------------------------------------- transformed random variable: spec
BaseVals == (0 - MaxBase)..MaxBase

TRVInit ==
    /\ rv_value = None /\ trv_value = None /\ lifecycle = "Unrealized"
    /\ base_draws = 0 /\ returned = <<>> /\ last_log_prob = None
    /\ y_sample = None /\ y_log_prob = None
    /\ MetricsIdle /\ EvalIdle

\* The base variable is realized on its own, before the transformed one.
DrawBase ==
    /\ rv_value = None
    /\ \E k \in BaseVals : rv_value' = [x |-> k]
    /\ base_draws' = base_draws + 1
    /\ UNCHANGED <<trv_value, lifecycle, returned, last_log_prob, y_sample, y_log_prob,
                   mvars, evars>>

\* sample() on the instance.
Sample ==
    /\ Len(returned) < MaxCalls
    /\ \E k \in BaseVals :
          LET r == SampleStep(rv_value, trv_value, k)
          IN /\ rv_value' = r.rv
             /\ trv_value' = r.trv
             /\ base_draws' = base_draws + r.drew
             /\ returned' = Append(returned, r.trv.y)
    /\ lifecycle' = "Realized"
    /\ UNCHANGED <<last_log_prob, y_sample, y_log_prob, mvars, evars>>

\* logProb(value) on the instance.
LogProb ==
    /\ \E k \in BaseVals : last_log_prob' = TransformedLogProb(ExpCall(k))
    /\ UNCHANGED <<rv_value, trv_value, lifecycle, base_draws, returned, y_sample,
                   y_log_prob, mvars, evars>>

\* Test line 53: y_sample = y.distribution.sample()
TestSample ==
    /\ y_sample = None
    /\ \E k \in BaseVals : y_sample' = ExpCall(k)
    /\ UNCHANGED <<rv_value, trv_value, lifecycle, base_draws, returned, last_log_prob,
                   y_log_prob, mvars, evars>>

\* Test line 54: y_log_prob = y.distribution.log_prob(y_sample)
TestLogProb ==
    /\ y_sample # None /\ y_log_prob = None
    /\ y_log_prob' = TransformedLogProb(y_sample)
    /\ UNCHANGED <<rv_value, trv_value, lifecycle, base_draws, returned, last_log_prob,
                   y_sample, mvars, evars>>

TRVNext == DrawBase \/ Sample \/ LogProb \/ TestSample \/ TestLogProb

SpecTRV == TRVInit /\ [][TRVNext]_vars

\* C9: every sample() returns what the first returned, the base is drawn at
\* most once, and once realized the instance stays realized.
C9_SampleIdempotent ==
    /\ \A i \in 1..Len(returned) : returned[i] = returned[1]
    /\ base_draws <= 1
    /\ returned # <<>> => (lifecycle = "Realized" /\ trv_value = [y |-> returned[1]])
    /\ lifecycle = "Unrealized" => (trv_value = None /\ returned = <<>>)
    /\ trv_value # None => (rv_value # None /\ trv_value.y = ExpCall(rv_value.x))

C9_Witness ==
    /\ Len(returned) = MaxCalls /\ last_log_prob # None /\ base_draws = 1
    /\ returned[1] = [n |-> 1, d |-> 2]

\* ln f(y) = -ln y - ln(2 pi)/2 - (ln y)^2 / 2, the standard log-normal.
LogNormalLogPdf(y) ==
    LET l == ILog2(y.n) - ILog2(y.d)
    IN [sq |-> 0 - l * l, lin |-> 0 - l, c |-> 0 - 1]

\* C10: a sample of exp(Normal(0, 1)) is positive, and the log-density at
\* it is finite and is the log-normal density.
C10_LogNormal ==
    /\ y_sample # None => Positive(y_sample)
    /\ y_log_prob # None =>
          /\ IsFinite(y_log_prob)
          /\ y_log_prob = LogNormalLogPdf(y_sample)

\* A sample below 1, where the Jacobian term is positive.
C10_Witness ==
    /\ y_sample = [n |-> 1, d |-> 4]
    /\ y_log_prob = [sq |-> 0 - 4, lin |-> 2, c |-> 0 - 1]

====
